---- MODULE Spec2Model ----
(***************************************************************************)
(* Model of src/src/plugin.js: the AwsCognitoToken template tag.  run()    *)
(* validates its arguments, builds a cache key, looks the key up in        *)
(* context.store, reuses a still valid token (or shows the error kept in a *)
(* fake token), and otherwise authenticates against Cognito and stores the *)
(* token, or a fake token carrying the error message for one minute.       *)
(*                                                                         *)
(* Data representation.  A JavaScript string that may be a JWT is a        *)
(* sequence of its "."-separated segments.  A segment is a record          *)
(*   [b64 |-> whether the text is base64url of JSON,                       *)
(*    raw |-> the text itself when it is not,                              *)
(*    null |-> whether the JSON is null rather than an object,             *)
(*    obj |-> the JSON object when it is one].                             *)
(* A JSON object is a record of its claims; each claim is a set holding    *)
(* the claim's value, or the empty set when the claim is absent (what      *)
(* JavaScript reads as undefined).  A value that may be undefined (the     *)
(* result of store.getItem, a return value not yet produced) is likewise a *)
(* set of at most one element.                                             *)
(***************************************************************************)
EXTENDS Integers, Sequences, FiniteSets, TLC

VARIABLES
  now,      \* the clock, in seconds: Date.now().valueOf() / 1000
  store,    \* context.store: key -> set of at most one string
  pc,       \* where each call of run stands
  args,     \* the arguments of each call
  token,    \* run's outer `token` (line 127): what getItem gave
  newToken, \* run's inner `token` (lines 138, 151): what is being stored
  message,  \* error.message inside the catch block (line 149)
  result,   \* what the call returned, or the message of what it threw
  log       \* per call: the collaborator invocations it made so far

vars == <<now, store, pc, args, token, newToken, message, result, log>>

----------------------------------------------------------------------------
(* Bounds of the model *)

\* clock readings 0..MaxEarly, and ErrorTTL-1 .. ErrorTTL+MaxLate
MaxEarly == 1
MaxLate == 2
\* lifetime of the tokens Cognito issues in the model (exp = now + TokenLife)
TokenLife == 1
\* clock skew of an issuer whose nbf lies ahead of the local clock
NbfSkew == 1

\* the identities of the calls of run
Procs == {"c1", "c2"}
\* the caller whose calls follow one another
Solo == {"c1"}

\* If error we keep it for 1 min (line 78)
ErrorTTL == 60

Times == (0..MaxEarly) \cup ((ErrorTTL - 1)..(ErrorTTL + MaxLate))

----------------------------------------------------------------------------
(* Strings, JSON objects and tokens *)

NoClaims ==
  [alg |-> {}, typ |-> {}, exp |-> {}, nbf |-> {}, error |-> {}, token_use |-> {}]

\* a segment that is not base64url of JSON
RawSeg(text) == [b64 |-> FALSE, raw |-> text, null |-> FALSE, obj |-> NoClaims]

\* an ordinary string without "." (a message), as a one-segment string
Str(text) == <<RawSeg(text)>>

\* CryptoJS.enc.Utf8.parse(JSON.stringify(o)) then base64url: the segment
\* that decodes to o.  JSON.stringify drops the claims that are undefined,
\* which is what an empty claim set stands for.
base64url(o) == [b64 |-> TRUE, raw |-> "", null |-> FALSE, obj |-> o]

\* the segment that decodes to the JSON value null
base64urlNull == [b64 |-> TRUE, raw |-> "", null |-> TRUE, obj |-> NoClaims]

\* jwt-decode: JSON.parse(base64_url_decode(token.split(".")[1])); throws
\* when there is no second segment or it is not base64url of JSON.
jwtDecodeThrows(t) == Len(t) < 2 \/ ~t[2].b64
jwtDecode(t) == t[2].obj

\* jwtDecode gave null: reading a property of it throws a TypeError
ReadThrows(t) == t[2].null

\* JavaScript truthiness of a string
Truthy(t) == t # Str("")

----------------------------------------------------------------------------
(* The pure functions of plugin.js *)

\* a slip: a token without exp taken as expired
validToken_NeedsExp(t) ==
  IF jwtDecodeThrows(t) \/ ReadThrows(t) THEN FALSE
  ELSE LET data == jwtDecode(t) IN
       IF data.exp = {} \/ (\E e \in data.exp : e < now) THEN FALSE
       ELSE IF data.nbf # {} /\ (\E n \in data.nbf : n > now) THEN FALSE
       ELSE TRUE

\* a slip: the expiry never looked at
validToken_IgnoresExp(t) ==
  IF jwtDecodeThrows(t) \/ ReadThrows(t) THEN FALSE
  ELSE LET data == jwtDecode(t) IN
       IF data.nbf # {} /\ (\E n \in data.nbf : n > now) THEN FALSE
       ELSE TRUE

\* a slip: a token taken as expired in the very second of its exp
validToken_OffByOne(t) ==
  IF jwtDecodeThrows(t) \/ ReadThrows(t) THEN FALSE
  ELSE LET data == jwtDecode(t) IN
       IF data.exp # {} /\ (\E e \in data.exp : e <= now) THEN FALSE
       ELSE IF data.nbf # {} /\ (\E n \in data.nbf : n > now) THEN FALSE
       ELSE TRUE

\* validToken (lines 45-59); a throw of jwtDecode, or of data.exp on a null
\* payload, is caught and gives false
validToken(t) ==
  IF jwtDecodeThrows(t) \/ ReadThrows(t) THEN FALSE
  ELSE LET data == jwtDecode(t) IN
       IF data.exp # {} /\ (\E e \in data.exp : e < now) THEN FALSE
       ELSE IF data.nbf # {} /\ (\E n \in data.nbf : n > now) THEN FALSE
       ELSE TRUE

\* a slip: the error kept for an hour instead of a minute
errorToken_Hour(error) ==
  LET header == [NoClaims EXCEPT !.alg = {"HS256"}, !.typ = {"JWT"}]
      data   == [NoClaims EXCEPT !.error = {error}, !.exp = {now + 3600}]
  IN  <<base64url(header), base64url(data)>>

\* errorToken (lines 70-86): encodedHeader + "." + encodedData
errorToken(error) ==
  LET header == [NoClaims EXCEPT !.alg = {"HS256"}, !.typ = {"JWT"}]
      exp    == now + ErrorTTL
      data   == [NoClaims EXCEPT !.error = {error}, !.exp = {exp}]
  IN  <<base64url(header), base64url(data)>>

\* a slip: Region checked before Username and Password
Required_RegionFirst(a) ==
  IF a.Region = "" THEN "Region attribute is required"
  ELSE IF a.Username = "" THEN "Username attribute is required"
  ELSE IF a.Password = "" THEN "Password attribute is required"
  ELSE IF a.ClientId = "" THEN "ClientId attribute is required"
  ELSE IF a.UserPoolId = "" THEN "UserPoolId attribute is required"
  ELSE ""

\* the check of the mandatory arguments (lines 99-113): the message thrown,
\* or "" when nothing is thrown.  A missing argument (undefined) and an
\* empty one are both the empty string here: `!x` and join treat them alike.
Required(a) ==
  IF a.Username = "" THEN "Username attribute is required"
  ELSE IF a.Password = "" THEN "Password attribute is required"
  ELSE IF a.Region = "" THEN "Region attribute is required"
  ELSE IF a.ClientId = "" THEN "ClientId attribute is required"
  ELSE IF a.UserPoolId = "" THEN "UserPoolId attribute is required"
  ELSE ""

\* lines 114-116
DefaultTokenType(a) ==
  [a EXCEPT !.TokenType = IF a.TokenType = "" THEN "access" ELSE a.TokenType]

\* a slip: the token type left out of the key
Key_NoTokenType(a) ==
  a.Username \o "::" \o a.Password \o "::" \o a.Region \o "::" \o a.ClientId
    \o "::" \o a.UserPoolId \o "::" \o a.ClientSecret

\* lines 118-126: the seven arguments joined with "::"
Key(a) ==
  a.Username \o "::" \o a.Password \o "::" \o a.Region \o "::" \o a.ClientId
    \o "::" \o a.UserPoolId \o "::" \o a.TokenType \o "::" \o a.ClientSecret

----------------------------------------------------------------------------
(* The inputs of the model *)

BaseArgs ==
  [Username |-> "u", Password |-> "p", Region |-> "r", ClientId |-> "c",
   UserPoolId |-> "up", TokenType |-> "", ClientSecret |-> ""]

ValidArgs == {[BaseArgs EXCEPT !.TokenType = tt] : tt \in {"", "access", "id"}}

InvalidArgs ==
  { [BaseArgs EXCEPT !.Username = ""],
    [BaseArgs EXCEPT !.Password = ""],
    [BaseArgs EXCEPT !.Region = ""],
    [BaseArgs EXCEPT !.ClientId = ""],
    [BaseArgs EXCEPT !.UserPoolId = ""],
    [BaseArgs EXCEPT !.Password = "", !.UserPoolId = "", !.TokenType = "id"],
    [BaseArgs EXCEPT !.Username = "", !.Region = "", !.ClientId = ""] }

ArgSets == ValidArgs \cup InvalidArgs

Keys == {Key(DefaultTokenType(a)) : a \in ValidArgs}

\* the messages authenticateUser's onFailure may carry
Messages == {"", "Incorrect username or password.", "Network error"}

\* the message of the error a failing store operation rejects with
StoreFailure == "store failure"

\* the kinds of JWT the identity provider hands out in the model
Shapes == {"exp", "nbf", "none", "null", "opaque", "empty"}

\* the JWT string of one token of a session (CognitoJwtToken.getJwtToken)
JwtToken(use, shape) ==
  LET header == base64url([NoClaims EXCEPT !.alg = {"RS256"}])
      claims == [NoClaims EXCEPT !.token_use = {use}]
      sig    == RawSeg("signature")
  IN  CASE shape = "exp" ->
             <<header, base64url([claims EXCEPT !.exp = {now + TokenLife}]), sig>>
        [] shape = "nbf" ->
             <<header,
               base64url([claims EXCEPT !.nbf = {now + NbfSkew},
                                        !.exp = {now + NbfSkew + TokenLife}]),
               sig>>
        [] shape = "none" -> <<header, base64url(claims), sig>>
        [] shape = "null" -> <<header, base64urlNull, sig>>
        [] shape = "opaque" -> Str(use \o "-tok123")
        [] OTHER -> Str("")

\* the session authenticateUser resolves with (line 34)
Session(shape) ==
  [idToken |-> JwtToken("id", shape), accessToken |-> JwtToken("access", shape)]

\* a slip: the access token returned whatever the token type
cognitoAuthToken_AlwaysAccess(authData, authUser) == authUser.accessToken

\* lines 40-41 of cognitoAuth
cognitoAuthToken(authData, authUser) ==
  IF authData.TokenType = "id" THEN authUser.idToken ELSE authUser.accessToken

----------------------------------------------------------------------------
(* The state machine: one call of run per element of Procs at a time *)

Init ==
  /\ now = 0
  /\ store = [k \in Keys |-> {}]
  /\ pc = [p \in Procs |-> "idle"]
  /\ args = [p \in Procs |-> BaseArgs]
  /\ token = [p \in Procs |-> {}]
  /\ newToken = [p \in Procs |-> {}]
  /\ message = [p \in Procs |-> {}]
  /\ result = [p \in Procs |-> {}]
  /\ log = [p \in Procs |-> <<>>]

\* the key of the call p is making (line 118)
key(p) == Key(args[p])

\* run, lines 89-127: from the call to the await of store.getItem.  A
\* missing mandatory argument throws before anything else happens.
Call(p, a) ==
  /\ pc[p] \in {"idle", "returned", "thrown"}
  /\ token' = [token EXCEPT ![p] = {}]
  /\ newToken' = [newToken EXCEPT ![p] = {}]
  /\ message' = [message EXCEPT ![p] = {}]
  /\ IF Required(a) # ""
       THEN /\ pc' = [pc EXCEPT ![p] = "thrown"]
            /\ args' = [args EXCEPT ![p] = a]
            /\ result' = [result EXCEPT ![p] = {Str(Required(a))}]
            /\ log' = [log EXCEPT ![p] = <<>>]
       ELSE /\ pc' = [pc EXCEPT ![p] = "getItem"]
            /\ args' = [args EXCEPT ![p] = DefaultTokenType(a)]
            /\ result' = [result EXCEPT ![p] = {}]
            /\ log' = [log EXCEPT ![p] = <<"getItem">>]
  /\ UNCHANGED <<now, store>>

\* the value run returns for a cached token that is still valid (lines
\* 129-134): the error of a fake token, else the token itself.  The test of
\* line 129 is JavaScript truthiness of the error claim.
Reuse(t) ==
  LET error == jwtDecode(t).error IN
  IF error # {} /\ error # {""} THEN Str(CHOOSE m \in error : TRUE) ELSE t

\* a slip: the test of line 128 without the validity check
Usable_Unchecked(got) == got # {} /\ \A t \in got : Truthy(t)

\* a slip: the test of line 128 with the validity check negated
Usable_Negated(got) == got # {} /\ \A t \in got : Truthy(t) /\ ~validToken(t)

\* the test of line 128 on what getItem gave (undefined is falsy)
Usable(got) == got # {} /\ \A t \in got : Truthy(t) /\ validToken(t)

\* a slip: a token that is reused is stored again
GetItemDone_Restores(p) ==
  /\ pc[p] = "getItem"
  /\ token' = [token EXCEPT ![p] = store[key(p)]]
  /\ IF Usable(store[key(p)])
       THEN /\ pc' = [pc EXCEPT ![p] = "returned"]
            /\ result' = [result EXCEPT ![p] = {Reuse(t) : t \in store[key(p)]}]
            /\ log' = [log EXCEPT ![p] = @ \o <<"getItem.done", "setItem", "setItem.done">>]
       ELSE /\ pc' = [pc EXCEPT ![p] = "auth"]
            /\ result' = result
            /\ log' = [log EXCEPT ![p] = @ \o <<"getItem.done", "auth">>]
  /\ UNCHANGED <<now, store, args, newToken, message>>

\* run, lines 127-146: store.getItem resolves; a usable token ends the call,
\* anything else calls cognitoAuth, which starts the SRP exchange.
GetItemDone(p) ==
  /\ pc[p] = "getItem"
  /\ token' = [token EXCEPT ![p] = store[key(p)]]
  /\ IF Usable(store[key(p)])
       THEN /\ pc' = [pc EXCEPT ![p] = "returned"]
            /\ result' = [result EXCEPT ![p] = {Reuse(t) : t \in store[key(p)]}]
            /\ log' = [log EXCEPT ![p] = Append(@, "getItem.done")]
       ELSE /\ pc' = [pc EXCEPT ![p] = "auth"]
            /\ result' = result
            /\ log' = [log EXCEPT ![p] = @ \o <<"getItem.done", "auth">>]
  /\ UNCHANGED <<now, store, args, newToken, message>>

\* cognitoAuth resolves (lines 34-41, 138) and run calls store.setItem with
\* the token (line 147)
AuthResolve(p, shape) ==
  /\ pc[p] = "auth"
  /\ newToken' = [newToken EXCEPT ![p] = {cognitoAuthToken(args[p], Session(shape))}]
  /\ pc' = [pc EXCEPT ![p] = "setItem"]
  /\ log' = [log EXCEPT ![p] = @ \o <<"auth.resolve", "setItem">>]
  /\ UNCHANGED <<now, store, args, token, message, result>>

\* the catch block up to its await (lines 149-152), entered with an error
\* whose message is m
Catch(p, m) ==
  /\ message' = [message EXCEPT ![p] = {m}]
  /\ newToken' = [newToken EXCEPT ![p] = {errorToken(m)}]
  /\ pc' = [pc EXCEPT ![p] = "setItemCatch"]

\* cognitoAuth rejects (onFailure, line 37): the catch block runs
AuthReject(p, m) ==
  /\ pc[p] = "auth"
  /\ Catch(p, m)
  /\ log' = [log EXCEPT ![p] = @ \o <<"auth.reject", "setItem">>]
  /\ UNCHANGED <<now, store, args, token, result>>

\* a slip: the token returned without having been stored
SetItemDone_NotStored(p) ==
  /\ pc[p] \in {"setItem", "setItemCatch"}
  /\ result' = [result EXCEPT ![p] =
                  IF pc[p] = "setItem" THEN newToken[p]
                  ELSE {Str(m) : m \in message[p]}]
  /\ pc' = [pc EXCEPT ![p] = "returned"]
  /\ log' = [log EXCEPT ![p] = Append(@, "setItem.done")]
  /\ UNCHANGED <<now, store, args, token, newToken, message>>

\* a slip: run looks the key up again after storing instead of returning
SetItemDone_LooksAgain(p) ==
  /\ pc[p] \in {"setItem", "setItemCatch"}
  /\ store' = [store EXCEPT ![key(p)] = newToken[p]]
  /\ pc' = [pc EXCEPT ![p] = "getItem"]
  /\ log' = [log EXCEPT ![p] = <<"getItem">>]
  /\ UNCHANGED <<now, args, token, newToken, message, result>>

\* a slip: the store emptied before the value is stored
SetItemDone_ClearsStore(p) ==
  /\ pc[p] \in {"setItem", "setItemCatch"}
  /\ store' = [k \in Keys |-> IF k = key(p) THEN newToken[p] ELSE {}]
  /\ result' = [result EXCEPT ![p] =
                  IF pc[p] = "setItem" THEN newToken[p]
                  ELSE {Str(m) : m \in message[p]}]
  /\ pc' = [pc EXCEPT ![p] = "returned"]
  /\ log' = [log EXCEPT ![p] = Append(@, "setItem.done")]
  /\ UNCHANGED <<now, args, token, newToken, message>>

\* a slip: a value is stored only where no entry is yet
SetItemDone_KeepsFirst(p) ==
  /\ pc[p] \in {"setItem", "setItemCatch"}
  /\ store' = [store EXCEPT ![key(p)] = IF @ = {} THEN newToken[p] ELSE @]
  /\ result' = [result EXCEPT ![p] =
                  IF pc[p] = "setItem" THEN newToken[p]
                  ELSE {Str(m) : m \in message[p]}]
  /\ pc' = [pc EXCEPT ![p] = "returned"]
  /\ log' = [log EXCEPT ![p] = Append(@, "setItem.done")]
  /\ UNCHANGED <<now, args, token, newToken, message>>

\* store.setItem resolves and run returns: the token (line 148) or, in the
\* catch block, the message (line 153)
SetItemDone(p) ==
  /\ pc[p] \in {"setItem", "setItemCatch"}
  /\ store' = [store EXCEPT ![key(p)] = newToken[p]]
  /\ result' = [result EXCEPT ![p] =
                  IF pc[p] = "setItem" THEN newToken[p]
                  ELSE {Str(m) : m \in message[p]}]
  /\ pc' = [pc EXCEPT ![p] = "returned"]
  /\ log' = [log EXCEPT ![p] = Append(@, "setItem.done")]
  /\ UNCHANGED <<now, args, token, newToken, message>>

\* the clock moves on to a later reading
Tick ==
  /\ \E t \in Times : t > now /\ now' = t
  /\ UNCHANGED <<store, pc, args, token, newToken, message, result, log>>

\* store.getItem rejects: the await of line 127 is outside the try block,
\* so run rejects with the store's error
GetItemReject(p) ==
  /\ pc[p] = "getItem"
  /\ pc' = [pc EXCEPT ![p] = "thrown"]
  /\ result' = [result EXCEPT ![p] = {Str(StoreFailure)}]
  /\ log' = [log EXCEPT ![p] = Append(@, "getItem.reject")]
  /\ UNCHANGED <<now, store, args, token, newToken, message>>

\* store.setItem rejects.  At line 147 the await is inside the try block:
\* the catch block runs with the store's error.  At line 152 it is inside
\* the catch block: run rejects.
SetItemReject(p) ==
  /\ pc[p] \in {"setItem", "setItemCatch"}
  /\ IF pc[p] = "setItem"
       THEN /\ Catch(p, StoreFailure)
            /\ result' = result
            /\ log' = [log EXCEPT ![p] = @ \o <<"setItem.reject", "setItem">>]
       ELSE /\ pc' = [pc EXCEPT ![p] = "thrown"]
            /\ result' = [result EXCEPT ![p] = {Str(StoreFailure)}]
            /\ log' = [log EXCEPT ![p] = Append(@, "setItem.reject")]
            /\ UNCHANGED <<newToken, message>>
  /\ UNCHANGED <<now, store, args, token>>

\* one caller, whose calls follow one another; the store keeps to its
\* contract (getItem and setItem resolve)
Next ==
  \/ \E p \in Solo, a \in ArgSets : Call(p, a)
  \/ \E p \in Solo : GetItemDone(p)
  \/ \E p \in Solo, shape \in Shapes : AuthResolve(p, shape)
  \/ \E p \in Solo, m \in Messages : AuthReject(p, m)
  \/ \E p \in Solo : SetItemDone(p)
  \/ Tick

Spec == Init /\ [][Next]_vars

\* the same caller with a store whose operations may reject
NextStoreFail ==
  \/ Next
  \/ \E p \in Solo : GetItemReject(p)
  \/ \E p \in Solo : SetItemReject(p)

SpecStoreFail == Init /\ [][NextStoreFail]_vars

----------------------------------------------------------------------------
(* Vocabulary of the properties *)

\* the call of p took the step that follows the cache lookup
Looked(p) == pc[p] = "getItem" /\ pc'[p] # "getItem"

\* the call of p has invoked the Authentication Client
Authenticated(l) == \E i \in 1..Len(l) : l[i] = "auth"

\* the payload of a string that decodes
Payload(t) == t[2].obj
\* a string that decodes to a JSON object, the payload
Decodes(t) == Len(t) >= 2 /\ t[2].b64 /\ ~t[2].null

\* a string whose payload carries an error claim
Sentinel(t) == Decodes(t) /\ Payload(t).error # {}

\* the validity rule of the specification at clock reading at
ValidAt(t, at) ==
  /\ Decodes(t)
  /\ \A e \in Payload(t).exp : ~(e < at)
  /\ \A n \in Payload(t).nbf : ~(n > at)

\* the first mandatory field, in the order of the signature, that is empty
FirstMissing(a) ==
  LET order  == <<"Username", "Password", "Region", "ClientId", "UserPoolId">>
      value  == <<a.Username, a.Password, a.Region, a.ClientId, a.UserPoolId>>
      absent == {i \in 1..5 : value[i] = ""}
  IN  IF absent = {} THEN ""
      ELSE order[CHOOSE i \in absent : \A j \in absent : i <= j]

----------------------------------------------------------------------------
(* C1 *)

\* C1: when the lookup of a call yields a token that validToken accepts at
\* that moment and whose payload has no error claim, the call returns
\* exactly that string and never invokes the Authentication Client.
C1_ValidHitReturnsCached ==
  [][\A p \in Procs :
       (/\ Looked(p)
        /\ \E t \in store[key(p)] : validToken(t) /\ Payload(t).error = {})
       => /\ pc'[p] = "returned"
          /\ result'[p] = store[key(p)]
          /\ ~Authenticated(log'[p])]_vars

C1_Witness ==
  \E p \in Procs :
    /\ pc[p] = "returned"
    /\ log[p] = <<"getItem", "getItem.done">>
    /\ \E t \in token[p] : Decodes(t) /\ Payload(t).error = {} /\ Payload(t).exp # {}
    /\ result[p] = token[p]

----------------------------------------------------------------------------
(* C2 *)

\* C2: a call that missed and whose authentication resolved with a token
\* has stored that token under its key and returned it: when it has
\* returned, the entry under its key is the returned string.
C2_MissStoresAndReturnsToken ==
  \A p \in Procs :
    (/\ pc[p] = "returned"
     /\ log[p] = <<"getItem", "getItem.done", "auth", "auth.resolve",
                   "setItem", "setItem.done">>)
    => \E t \in newToken[p] : result[p] = {t} /\ store[key(p)] = {t}

C2_Witness ==
  \E p \in Procs :
    /\ pc[p] = "returned"
    /\ token[p] = {}
    /\ newToken[p] = {Str("access-tok123")}
    /\ result[p] = {Str("access-tok123")}
    /\ store[key(p)] = {Str("access-tok123")}

----------------------------------------------------------------------------
(* C3 *)

\* C3: when the authentication of a call that missed fails with message m
\* at clock reading now, the token the call goes on to store decodes to
\* error = m and exp = now + 60, and the call returns m itself, not the
\* encoded token, once that token is stored under its key.
C3_FailureStoresErrorTokenReturnsMessage ==
  [][\A p \in Procs :
       /\ (pc[p] = "auth" /\ pc'[p] = "setItemCatch")
          => \E m \in message'[p] : \E t \in newToken'[p] :
               /\ newToken'[p] = {t}
               /\ Decodes(t)
               /\ Payload(t).error = {m}
               /\ Payload(t).exp = {now + 60}
       /\ (pc[p] = "setItemCatch" /\ pc'[p] = "returned")
          => \E m \in message[p] :
               /\ result'[p] = {Str(m)}
               /\ result'[p] # newToken[p]
               /\ store'[key(p)] = newToken[p]]_vars

C3_Witness ==
  \E p \in Procs :
    /\ pc[p] = "returned"
    /\ log[p][4] = "auth.reject"
    /\ result[p] = {Str("Incorrect username or password.")}
    /\ store[key(p)] = newToken[p]
    /\ \E t \in newToken[p] :
         /\ Payload(t).error = {"Incorrect username or password."}
         /\ Payload(t).exp = {now + 60}

----------------------------------------------------------------------------
(* C4 *)

\* C4: while the entry under the key of a call is the error token of a
\* failure with message m at time t (exp = t + 60) and the clock reads no
\* more than t + 60 when the call looks it up, the call returns m and does
\* not invoke the Authentication Client.
C4_NegativeCacheWindow ==
  [][\A p \in Procs :
       Looked(p) =>
         \A t \in store[key(p)] :
           (Sentinel(t) /\ \E e \in Payload(t).exp : now <= e)
           => /\ pc'[p] = "returned"
              /\ ~Authenticated(log'[p])
              /\ result'[p] = {Str(m) : m \in Payload(t).error}]_vars

----------------------------------------------------------------------------
(* C5 *)

\* C5: a call whose lookup yields a valid token with an error claim returns
\* the value of the claim, whatever it is, and never the token string.
C5_SentinelHitReturnsError ==
  [][\A p \in Procs :
       Looked(p) =>
         \A t \in store[key(p)] :
           (validToken(t) /\ Sentinel(t))
           => /\ pc'[p] = "returned"
              /\ result'[p] = {Str(m) : m \in Payload(t).error}
              /\ result'[p] # {t}]_vars

----------------------------------------------------------------------------
(* C6 *)

\* C6: the error token of a failure at time t has exp = t + 60; looked up
\* at t + 59 it is accepted and ends the call, and looked up at any time
\* after t + 60 (t + 61 among them) it is rejected and the call
\* authenticates again.
C6_NegativeCacheExpires ==
  [][\A p \in Procs :
       /\ (pc[p] = "auth" /\ pc'[p] = "setItemCatch")
          => \A t \in newToken'[p] : Payload(t).exp = {now + 60}
       /\ Looked(p) =>
            \A t \in store[key(p)] :
              Sentinel(t) =>
                \A e \in Payload(t).exp :
                  /\ (now = e - 60 + 59)
                     => validToken(t) /\ pc'[p] = "returned"
                  /\ (now > e)
                     => /\ ~validToken(t)
                        /\ pc'[p] = "auth"
                        /\ Authenticated(log'[p])]_vars

C6_Witness ==
  \E p \in Procs :
    /\ pc[p] = "auth"
    /\ \E t \in token[p] : Sentinel(t) /\ Payload(t).exp = {now - 1}

----------------------------------------------------------------------------
(* C7 *)

\* C7: a call with an empty mandatory argument throws the error naming the
\* first empty one, in the order Username, Password, Region, ClientId,
\* UserPoolId, without having invoked getItem, setItem or the
\* Authentication Client, and leaves the store as it was.
C7_ValidationThrowsFirst ==
  [][\A p \in Procs :
       (/\ FirstMissing(args'[p]) # ""
        /\ <<pc[p], args[p]>> # <<pc'[p], args'[p]>>)
       => /\ pc'[p] = "thrown"
          /\ result'[p] = {Str(FirstMissing(args'[p]) \o " attribute is required")}
          /\ log'[p] = <<>>
          /\ store' = store]_vars

C7_Witness ==
  \E p \in Procs :
    /\ pc[p] = "thrown"
    /\ args[p].Username = "" /\ args[p].Region = ""
    /\ result[p] = {Str("Username attribute is required")}
    /\ log[p] = <<>>
    /\ \E k \in Keys : store[k] # {}

----------------------------------------------------------------------------
(* C8 *)

\* C8: a call whose lookup yields an entry that is empty, malformed,
\* expired or not yet valid goes on exactly as a call whose lookup yields
\* nothing: it invokes the Authentication Client, and when it returns it
\* has overwritten the entry with the token or error token of that
\* authentication and returned the token or the failure message.
C8_InvalidEntryLikeMissing ==
  [][\A p \in Procs :
       /\ (Looked(p) /\ ~(\E t \in store[key(p)] : ValidAt(t, now)))
          => /\ pc'[p] = "auth"
             /\ log'[p] = <<"getItem", "getItem.done", "auth">>
             /\ <<newToken'[p], message'[p], result'[p]>> = <<{}, {}, {}>>
             /\ store' = store
       /\ (pc[p] \in {"setItem", "setItemCatch"} /\ pc'[p] = "returned")
          => /\ store'[key(p)] = newToken[p]
             /\ result'[p] = IF pc[p] = "setItem" THEN newToken[p]
                             ELSE {Str(m) : m \in message[p]}]_vars

C8_Witness ==
  \E p \in Procs :
    /\ pc[p] = "returned"
    /\ Authenticated(log[p])
    /\ \E t \in token[p] : Decodes(t) /\ \E e \in Payload(t).exp : e < now
    /\ store[key(p)] = newToken[p]
    /\ store[key(p)] # token[p]

----------------------------------------------------------------------------
(* C9 *)

\* the strings the program holds
Held ==
  UNION ({store[k] : k \in Keys} \cup {token[p] : p \in Procs}
           \cup {newToken[p] : p \in Procs})

\* C9: validToken is false exactly for a string that does not decode, or
\* whose exp is before the clock reading, or whose nbf is after it; so it
\* is true for exp = now, for nbf = now and for a payload with neither.
C9_ValidTokenRule ==
  \A t \in Held :
    /\ validToken(t) = ValidAt(t, now)
    /\ (Decodes(t) /\ Payload(t).exp \subseteq {now} /\ Payload(t).nbf \subseteq {now})
         => validToken(t)

C9_Witness ==
  \E p \in Procs :
    /\ pc[p] = "returned"
    /\ ~Authenticated(log[p])
    /\ \E t \in token[p] : Payload(t).exp = {now} /\ result[p] = {t}

----------------------------------------------------------------------------
(* C10 *)

\* C10: a call throws only when a mandatory argument is empty; every
\* failure after the validation ends in a return.
C10_OnlyValidationThrows ==
  \A p \in Procs : pc[p] = "thrown" => FirstMissing(args[p]) # ""

----------------------------------------------------------------------------
(* C11 *)

\* the token of a session that cognitoAuth hands out for a token type
UseFor(tt) == IF tt = "id" THEN "id" ELSE "access"

\* t is a string the Authentication Client may return for token type tt
IssuedFor(t, tt) ==
  \/ Decodes(t) /\ Payload(t).error = {} /\ Payload(t).token_use = {UseFor(tt)}
  \/ t = Str(UseFor(tt) \o "-tok123")
  \/ t = Str("")
  \/ Len(t) = 3 /\ t[2] = base64urlNull

\* the error messages the call of p may return: that of its own failure,
\* or the error claim of the token it looked up
Errors(p) ==
  message[p] \cup UNION {Payload(u).error : u \in {v \in token[p] : Decodes(v)}}

\* C11: argument sets that differ only in their token type have different
\* keys; a call returns an error message or a token issued for its own
\* token type, never one issued for another; no entry
\* holds one, and a step changes an entry only under the key of a call that
\* is storing.
C11_TokenTypesCacheApart ==
  [][/\ \A a, b \in {DefaultTokenType(c) : c \in ValidArgs} :
          (a.TokenType # b.TokenType /\ [a EXCEPT !.TokenType = ""] = [b EXCEPT !.TokenType = ""])
          => Key(a) # Key(b)
     /\ \A a \in {DefaultTokenType(c) : c \in ValidArgs} :
          \A t \in store[Key(a)] : Sentinel(t) \/ IssuedFor(t, a.TokenType)
     /\ \A p \in Procs :
          pc[p] = "returned"
          => \A t \in result[p] :
               \/ t \in {Str(m) : m \in Errors(p)}
               \/ Sentinel(t)
               \/ IssuedFor(t, args[p].TokenType)
     /\ \A k \in Keys :
          store'[k] # store[k]
          => \E p \in Procs :
               /\ pc[p] \in {"setItem", "setItemCatch"} /\ pc'[p] = "returned"
               /\ key(p) = k
               /\ store'[k] = newToken[p]]_vars

C11_Witness ==
  \E p \in Procs :
    /\ pc[p] = "returned"
    /\ args[p].TokenType = "id"
    /\ ~Authenticated(log[p])
    /\ \E t \in result[p] : Decodes(t) /\ Payload(t).token_use = {"id"}
    /\ \E t \in store[Key(DefaultTokenType(BaseArgs))] :
         Decodes(t) /\ Payload(t).token_use = {"access"}

----------------------------------------------------------------------------
(* C12 *)

\* the collaborators respond: an awaited getItem, authentication or setItem
\* eventually resolves or rejects
Responds(p) ==
  /\ WF_vars(GetItemDone(p) \/ GetItemReject(p))
  /\ WF_vars((\E shape \in Shapes : AuthResolve(p, shape))
               \/ (\E m \in Messages : AuthReject(p, m)))
  /\ WF_vars(SetItemDone(p) \/ SetItemReject(p))

\* the arguments of the calls whose termination is followed: one key, and
\* one call that fails validation
RespondsArgs == {BaseArgs, [BaseArgs EXCEPT !.Username = ""]}

\* one caller; the store and the Authentication Client resolve or reject
NextResponds ==
  \/ \E p \in Solo, a \in RespondsArgs : Call(p, a)
  \/ \E p \in Solo : GetItemDone(p)
  \/ \E p \in Solo : GetItemReject(p)
  \/ \E p \in Solo, shape \in Shapes : AuthResolve(p, shape)
  \/ \E p \in Solo, m \in Messages : AuthReject(p, m)
  \/ \E p \in Solo : SetItemDone(p)
  \/ \E p \in Solo : SetItemReject(p)
  \/ Tick

SpecResponds == Init /\ [][NextResponds]_vars /\ \A p \in Solo : Responds(p)

\* the call of p is awaiting a collaborator
Running(p) == pc[p] \in {"getItem", "auth", "setItem", "setItemCatch"}

\* the call of p has returned or thrown
Resolved(p) == pc[p] \in {"returned", "thrown"}

\* C12: when the collaborators respond, every call that has started
\* eventually returns or throws.
C12_EveryCallResolves ==
  \A p \in Procs : Running(p) ~> Resolved(p)

C12_Witness ==
  \E p \in Procs :
    /\ pc[p] = "returned"
    /\ log[p] = <<"getItem", "getItem.done", "auth", "auth.resolve", "setItem",
                  "setItem.reject", "setItem", "setItem.done">>

----------------------------------------------------------------------------
(* C13 *)

\* how often event e stands in the log l of a call
Count(l, e) == Cardinality({i \in 1..Len(l) : l[i] = e})

\* C13: a call invokes the Authentication Client at most once, reads the
\* store at most once and writes it at most once, and writes it only after
\* it has invoked the Authentication Client.
C13_AtMostOnce ==
  \A p \in Procs :
    /\ Count(log[p], "auth") <= 1
    /\ Count(log[p], "getItem") <= 1
    /\ Count(log[p], "setItem.done") <= 1
    /\ \A i \in 1..Len(log[p]) :
         log[p][i] \in {"setItem", "setItem.done"}
         => \E j \in 1..(i - 1) : log[p][j] = "auth"

C13_Witness ==
  \E p \in Procs :
    /\ pc[p] = "returned"
    /\ Count(log[p], "getItem") = 1
    /\ Count(log[p], "auth") = 1
    /\ Count(log[p], "setItem") = 2
    /\ Count(log[p], "setItem.done") = 1

----------------------------------------------------------------------------
(* C14 *)

\* C14: a call invokes the Authentication Client only in the step in which
\* its lookup completes, holding what the lookup gave; and a call that has
\* authenticated returns only in the step in which its setItem completes,
\* with the stored value under its key.
C14_LookupThenAuthThenStore ==
  [][\A p \in Procs :
       /\ (pc'[p] = "auth" /\ pc[p] # "auth")
          => /\ pc[p] = "getItem"
             /\ token'[p] = store[key(p)]
             /\ log'[p] = <<"getItem", "getItem.done", "auth">>
       /\ (pc'[p] = "returned" /\ pc[p] # "returned" /\ Authenticated(log'[p]))
          => /\ pc[p] \in {"setItem", "setItemCatch"}
             /\ log'[p][Len(log'[p])] = "setItem.done"
             /\ store'[key(p)] = newToken[p]
             /\ result'[p] \in {newToken[p], {Str(m) : m \in message[p]}}]_vars

C14_Witness ==
  \E p \in Procs :
    /\ pc[p] = "returned"
    /\ log[p] = <<"getItem", "getItem.done", "auth", "auth.reject", "setItem",
                  "setItem.done">>
    /\ result[p] = {Str("Network error")}
    /\ store[key(p)] = newToken[p]

----------------------------------------------------------------------------
(* Two callers whose calls overlap *)

\* the inputs of the overlapping calls: one key, a token that expires, one
\* without exp and nbf and one that does not decode, one failure message
RaceArgs == {BaseArgs}
RaceShapes == {"exp", "none", "opaque"}
RaceMessages == {"Network error"}

\* run keeps no lock: between the awaits of one call the steps of another
\* call may run
NextRace ==
  \/ \E p \in Procs, a \in RaceArgs : Call(p, a)
  \/ \E p \in Procs : GetItemDone(p)
  \/ \E p \in Procs, shape \in RaceShapes : AuthResolve(p, shape)
  \/ \E p \in Procs, m \in RaceMessages : AuthReject(p, m)
  \/ \E p \in Procs : SetItemDone(p)
  \/ Tick

SpecRace == Init /\ [][NextRace]_vars

----------------------------------------------------------------------------
(* C15 *)

\* the setItem of the call of p completes in this step
Stores(p) == pc[p] \in {"setItem", "setItemCatch"} /\ pc'[p] = "returned"

\* C15: calls that overlap on one key are not kept apart: each completing
\* setItem puts its own value under the key whatever another call stored
\* there meanwhile, and nothing else changes an entry, so the entry is the
\* value of the setItem that completed last.  (The witness is the
\* interleaving in which both calls missed, authenticated and stored.)
C15_LastWriteWins ==
  [][/\ \A p \in Procs : Stores(p) => store'[key(p)] = newToken[p]
     /\ \A k \in Keys :
          store'[k] # store[k] => \E p \in Procs : Stores(p) /\ key(p) = k]_vars

C15_Witness ==
  /\ \A p \in Procs :
       /\ pc[p] = "returned"
       /\ token[p] = {}
       /\ Count(log[p], "auth") = 1
       /\ Count(log[p], "setItem.done") = 1
       /\ key(p) = Key(DefaultTokenType(BaseArgs))
  /\ newToken["c1"] # newToken["c2"]
  /\ result["c1"] = newToken["c1"]
  /\ store[Key(DefaultTokenType(BaseArgs))] = newToken["c2"]

----------------------------------------------------------------------------
(* C16 *)

\* C16: a call whose authentication resolved with a token never goes on to
\* store an error token, and returns that token, also when the store
\* rejects.
C16_ErrorTokenOnlyAfterAuthFailure ==
  \A p \in Procs :
    Count(log[p], "auth.resolve") = 1
    => /\ \A t \in newToken[p] : ~Sentinel(t)
       /\ Resolved(p) => pc[p] = "returned" /\ result[p] = newToken[p]

----------------------------------------------------------------------------
(* C17 *)

\* a string that decodes to a payload with neither exp nor nbf
Unlimited(t) == Decodes(t) /\ Payload(t).exp = {} /\ Payload(t).nbf = {}

\* a call for key k is past a lookup that missed and has not yet returned
InFlight(p, k) == pc[p] \in {"auth", "setItem", "setItemCatch"} /\ key(p) = k

\* C17 as stated: an entry whose payload has neither exp nor nbf is valid at
\* every clock reading; it is never changed again, and every call that looks
\* it up returns it (or its error claim) without invoking the Authentication
\* Client.
C17_NoExpiryValidForever ==
  [][/\ \A k \in Keys : \A t \in store[k] :
          Unlimited(t) => validToken(t) /\ store'[k] = store[k]
     /\ \A p \in Procs :
          Looked(p) =>
            \A t \in store[key(p)] :
              Unlimited(t)
              => /\ pc'[p] = "returned"
                 /\ ~Authenticated(log'[p])
                 /\ result'[p] \in {{t}, {Str(m) : m \in Payload(t).error}}]_vars

\* C17 as amended: an entry whose payload has neither exp nor nbf is valid
\* at every clock reading, and every call that looks it up returns it (or
\* its error claim) without invoking the Authentication Client and without
\* writing.  While no call for its key is past a lookup that missed, none
\* becomes so and the entry stays.  The entry is replaced only by the
\* completing setItem of a call that authenticated after its own lookup had
\* not found such a token.
C17_NoExpiryValidUntilOverwritten ==
  [][/\ \A k \in Keys : \A t \in store[k] :
          Unlimited(t)
          => /\ validToken(t)
             /\ (\A p \in Procs : ~InFlight(p, k))
                => /\ store'[k] = store[k]
                   /\ \A p \in Procs : ~InFlight(p, k)'
             /\ store'[k] # store[k]
                => \E p \in Procs :
                     /\ InFlight(p, k)
                     /\ Stores(p)
                     /\ Count(log[p], "auth") = 1
                     /\ ~(\E u \in token[p] : Unlimited(u))
                     /\ store'[k] = newToken[p]
     /\ \A p \in Procs :
          Looked(p) =>
            \A t \in store[key(p)] :
              Unlimited(t)
              => /\ pc'[p] = "returned"
                 /\ ~Authenticated(log'[p])
                 /\ store' = store
                 /\ result'[p] \in {{t}, {Str(m) : m \in Payload(t).error}}]_vars

\* one call has returned a token without expiry from the cache, late, and a
\* call that had missed before it was stored has since replaced it
C17_Witness ==
  \E p, q \in Procs :
    /\ pc[p] = "returned" /\ pc[q] = "returned"
    /\ key(p) = key(q)
    /\ now > ErrorTTL
    /\ log[p] = <<"getItem", "getItem.done">>
    /\ \E t \in token[p] : Unlimited(t) /\ result[p] = {t}
    /\ Count(log[q], "auth") = 1
    /\ token[q] = {}
    /\ store[key(q)] = newToken[q]
    /\ store[key(q)] # token[p]

----------------------------------------------------------------------------
(* C18 *)

\* C18: a step changes the store only as the completing setItem of one
\* call, and then only the entry under the key of that call; the step in
\* which a lookup is a valid hit, and the step in which validation fails,
\* leave the store as it was.
C18_Frame ==
  [][/\ store' # store
          => \E p \in Procs :
               /\ Stores(p)
               /\ Authenticated(log[p])
               /\ \A k \in Keys : k # key(p) => store'[k] = store[k]
     /\ \A p \in Procs :
          (pc'[p] = "returned" /\ pc[p] # "returned" /\ ~Authenticated(log'[p]))
          => pc[p] = "getItem" /\ store' = store
     /\ \A p \in Procs :
          (pc'[p] = "thrown" /\ log'[p] = <<>>) => store' = store]_vars

C18_Witness ==
  \E p \in Procs :
    /\ pc[p] = "returned"
    /\ Authenticated(log[p])
    /\ store[key(p)] = newToken[p]
    /\ \E k \in Keys :
         /\ k # key(p)
         /\ \E t \in store[k] : Decodes(t) /\ t \notin newToken[p]

----------------------------------------------------------------------------
(* C19 *)

\* a string built as errorToken builds it
IsErrorToken(t) ==
  /\ Len(t) = 2
  /\ t[1] = base64url([NoClaims EXCEPT !.alg = {"HS256"}, !.typ = {"JWT"}])
  /\ Decodes(t)
  /\ Payload(t).error # {}
  /\ Payload(t) = [NoClaims EXCEPT !.error = Payload(t).error, !.exp = Payload(t).exp]

\* the token type of the calls that use key k
TypesOf(k) == {a.TokenType : a \in {b \in {DefaultTokenType(c) : c \in ValidArgs} : Key(b) = k}}

\* C19: from an empty store, every entry under a key is a token the
\* Authentication Client returned for the token type of that key, or an
\* error token whose exp is the clock reading of a failure plus 60: what a
\* call stores is the token its authentication resolved with, or the error
\* token it built, at the failure, with exp = now + 60.
C19_StoreContents ==
  [][/\ \A k \in Keys : \A t \in store[k] :
          \/ \E tt \in TypesOf(k) : IssuedFor(t, tt)
          \/ /\ IsErrorToken(t)
             /\ \E at \in Times : at <= now /\ Payload(t).exp = {at + 60}
     /\ \A p \in Procs :
          /\ (pc[p] = "auth" /\ pc'[p] = "setItem")
             => \A t \in newToken'[p] : IssuedFor(t, args[p].TokenType)
          /\ (pc[p] = "auth" /\ pc'[p] = "setItemCatch")
             => \A t \in newToken'[p] : IsErrorToken(t) /\ Payload(t).exp = {now + 60}
          /\ Stores(p) => store'[key(p)] = newToken[p]]_vars

C19_Witness ==
  /\ \E t \in store[Key(DefaultTokenType(BaseArgs))] :
       IsErrorToken(t) /\ Payload(t).exp = {1 + 60}
  /\ \E t \in store[Key([BaseArgs EXCEPT !.TokenType = "id"])] :
       Decodes(t) /\ Payload(t).token_use = {"id"} /\ Payload(t).exp # {}

----------------------------------------------------------------------------
(* C20 *)

\* an entry that is a currently valid token of the Authentication Client
ValidReal(got) == \E t \in got : ValidAt(t, now) /\ ~Sentinel(t)

\* C20 as stated: in every interleaving, an entry that holds a currently
\* valid token obtained from the Authentication Client is never replaced by
\* an error token.
C20_ValidTokenNeverReplaced ==
  [][\A k \in Keys :
       ValidReal(store[k]) => ~(\E u \in store'[k] : Sentinel(u))]_vars

\* C20 as amended: a call whose lookup yields a currently valid token
\* returns in that step and never writes, so an entry that holds a
\* currently valid token is replaced (by an error token or by anything) only
\* by the completing setItem of a call whose own, earlier lookup found no
\* valid token and which therefore invoked the Authentication Client.
C20_ReplacedOnlyByCallThatMissed ==
  [][/\ \A p \in Procs :
          (Looked(p) /\ ValidReal(store[key(p)]))
          => pc'[p] = "returned" /\ store' = store
     /\ \A k \in Keys :
          (ValidReal(store[k]) /\ store'[k] # store[k])
          => \E p \in Procs :
               /\ Stores(p)
               /\ key(p) = k
               /\ Count(log[p], "auth") = 1
               /\ store'[k] = newToken[p]]_vars

C20_Witness ==
  \E p, q \in Procs :
    /\ pc[p] = "returned" /\ pc[q] = "returned"
    /\ key(p) = key(q)
    /\ \E t \in result[p] : ValidAt(t, now) /\ ~Sentinel(t)
    /\ result[p] = newToken[p]
    /\ \E u \in store[key(p)] : IsErrorToken(u)
    /\ store[key(p)] = newToken[q]
    /\ token[q] = {}

====
